---- MODULE Spec2Model ----
(***************************************************************************)
(* Model of the diffychat pallet (pallets/template/src/lib.rs): the        *)
(* nickname registry, the per-account contact book and the offer/answer    *)
(* signalling calls.  Every dispatchable runs to completion as one step.   *)
(***************************************************************************)
EXTENDS Integers, Sequences, FiniteSets, TLC

(* ---------------------------------------------------------------------- *)
(* Value domains.  A fixed-width byte array is modelled by a small set of  *)
(* distinct values; Zero stands for the all-zero array of its width.       *)
(* ---------------------------------------------------------------------- *)
MaxEvents == 1
MaxInFlight == 2

Zero == "zero"

AccountId == {"alice", "bob"}
Nickname == {Zero, "nickA", "nickB"}
Address == {Zero, "addrA"}
EncodedContactName == {Zero, "nameA"}
EncodedContactAddr == {Zero, "peerA"}
WelcomeMsg == {Zero, "hello"}
OfferBlob == {Zero, "offerA"}
AnswerBlob == {Zero, "answerA"}

\* What a call record holds for an argument the call does not take, and the
\* caller of a call whose origin is not signed.
NoArg == "-"
NoAccount == "nobody"

VARIABLES ItemByNicknameStore, ItemByAccountIdStore, ContactByAccountIdStore,
          events, last, prev, registered, inflight, overlapped

stores == <<ItemByNicknameStore, ItemByAccountIdStore, ContactByAccountIdStore>>
vars == <<ItemByNicknameStore, ItemByAccountIdStore, ContactByAccountIdStore,
          events, last, prev, registered, inflight, overlapped>>

(* ---------------------------------------------------------------------- *)
(* Origins and ensure_signed.                                              *)
(* ---------------------------------------------------------------------- *)
Signed(a) == [raw |-> "Signed", who |-> a]
\* Every origin that is not Signed is rejected alike; None stands for them.
Unsigned == {[raw |-> "None", who |-> NoAccount]}
Origin == {Signed(a) : a \in AccountId} \cup Unsigned

ensure_signed(origin) ==
    IF origin.raw = "Signed" THEN [ok |-> TRUE, who |-> origin.who]
                             ELSE [ok |-> FALSE, who |-> NoAccount]

(* ---------------------------------------------------------------------- *)
(* Storage maps: a map is the set of its <<key, value>> entries, a double  *)
(* map the set of its <<key1, key2, value>> entries.                       *)
(* ---------------------------------------------------------------------- *)
ItemByAccountId(address, nickname) == [address |-> address, nickname |-> nickname]
ContactByAccountId(name) == [name |-> name]

contains_key(map, k) == \E e \in map : e[1] = k

insert(map, k, v) == {e \in map : e[1] # k} \cup {<<k, v>>}

\* double_insert that leaves an entry already stored under the key in place.
double_insert_keep(map, k1, k2, v) == map \cup {<<k1, k2, v>>}

double_insert(map, k1, k2, v) ==
    {e \in map : ~(e[1] = k1 /\ e[2] = k2)} \cup {<<k1, k2, v>>}

\* double_remove clearing every entry under the first key.
double_remove_prefix(map, k1, k2) == {e \in map : e[1] # k1}

double_remove(map, k1, k2) == {e \in map : ~(e[1] = k1 /\ e[2] = k2)}

\* double_set that takes the entry out when the key already holds the value.
double_set_toggle(map, k1, k2, v) ==
    IF <<k1, k2, v>> \in map THEN double_remove(map, k1, k2)
                             ELSE double_insert(map, k1, k2, v)

\* ValueQuery: the query value is always Some(v), so set always inserts.
double_set(map, k1, k2, v) == double_insert(map, k1, k2, v)

deposit_event(log, e) == Append(log, e)

EventOffer(offer, by, to, welcome_msg) ==
    [kind |-> "Offer", payload |-> offer, from |-> by, to |-> to, welcome_msg |-> welcome_msg]

EventAnswer(answer, from, to) ==
    [kind |-> "Answer", payload |-> answer, from |-> from, to |-> to, welcome_msg |-> NoArg]

(* ---------------------------------------------------------------------- *)
(* History of the calls made: the last call with its result, the call     *)
(* before it, and the register calls that have succeeded so far.           *)
(* inflight and overlapped belong to the execution in which the dispatcher *)
(* does not serialize register (below): the register calls that have       *)
(* passed their guards and not yet written, and whether a call ever ran    *)
(* its guards while another was in that position.  Under serialized        *)
(* execution they stay empty and FALSE.                                    *)
(* ---------------------------------------------------------------------- *)
NoCall ==
    [op |-> "none", origin |-> [raw |-> "None", who |-> NoAccount],
     nickname |-> NoArg, address |-> NoArg, welcome_msg |-> NoArg, offer |-> NoArg,
     answer |-> NoArg, to |-> NoArg, contact_name |-> NoArg, contact_addr |-> NoArg,
     result |-> "none"]

Init ==
    /\ ItemByNicknameStore = {}
    /\ ItemByAccountIdStore = {}
    /\ ContactByAccountIdStore = {}
    /\ events = <<>>
    /\ last = NoCall
    /\ prev = NoCall
    /\ registered = {}
    /\ inflight = {}
    /\ overlapped = FALSE

(* ---------------------------------------------------------------------- *)
(* Getter of the identity map.  The map is a ValueQuery map: reading a key *)
(* that has no entry yields the default record.                            *)
(* ---------------------------------------------------------------------- *)
DefaultItemByAccountId == ItemByAccountId(Zero, Zero)

get_address_by_account_id(a) ==
    LET found == {e[2] : e \in {x \in ItemByAccountIdStore : x[1] = a}}
    IN IF found = {} THEN DefaultItemByAccountId ELSE CHOOSE v \in found : TRUE

(* ---------------------------------------------------------------------- *)
(* Dispatchables.                                                          *)
(* ---------------------------------------------------------------------- *)
\* offer_chat depositing its event before the origin is checked.
offer_chat_deposit_first(origin, welcome_msg, offer, to) ==
    LET who == ensure_signed(origin)
        call == [NoCall EXCEPT !.op = "offer_chat", !.origin = origin,
                               !.welcome_msg = welcome_msg, !.offer = offer, !.to = to]
    IN /\ Len(events) < MaxEvents
       /\ events' = deposit_event(events, EventOffer(offer, who.who, to, welcome_msg))
       /\ last' = [call EXCEPT !.result = IF who.ok THEN "Ok" ELSE "BadOrigin"]
       /\ prev' = last
       /\ UNCHANGED <<inflight, overlapped>>
       /\ UNCHANGED <<stores, registered>>

\* offer_chat with the sender and the recipient exchanged in the event.
offer_chat_swapped(origin, welcome_msg, offer, to) ==
    LET who == ensure_signed(origin)
        call == [NoCall EXCEPT !.op = "offer_chat", !.origin = origin,
                               !.welcome_msg = welcome_msg, !.offer = offer, !.to = to]
    IN /\ Len(events) < MaxEvents
       /\ IF ~who.ok
          THEN /\ last' = [call EXCEPT !.result = "BadOrigin"]
               /\ UNCHANGED events
          ELSE /\ events' = deposit_event(events, EventOffer(offer, to, who.who, welcome_msg))
               /\ last' = [call EXCEPT !.result = "Ok"]
       /\ prev' = last
       /\ UNCHANGED <<inflight, overlapped>>
       /\ UNCHANGED <<stores, registered>>

offer_chat(origin, welcome_msg, offer, to) ==
    LET who == ensure_signed(origin)
        call == [NoCall EXCEPT !.op = "offer_chat", !.origin = origin,
                               !.welcome_msg = welcome_msg, !.offer = offer, !.to = to]
    IN /\ Len(events) < MaxEvents
       /\ IF ~who.ok
          THEN /\ last' = [call EXCEPT !.result = "BadOrigin"]
               /\ UNCHANGED events
          ELSE /\ events' = deposit_event(events, EventOffer(offer, who.who, to, welcome_msg))
               /\ last' = [call EXCEPT !.result = "Ok"]
       /\ prev' = last
       /\ UNCHANGED <<inflight, overlapped>>
       /\ UNCHANGED <<stores, registered>>

\* Variants of register with one of its steps changed: check_account and
\* check_nickname switch the two contains_key guards, early_insert writes the
\* identity record before the nickname guard is evaluated.
register_variant(origin, nickname, address, check_account, check_nickname, early_insert) ==
    LET owner == ensure_signed(origin)
        call == [NoCall EXCEPT !.op = "register", !.origin = origin,
                               !.nickname = nickname, !.address = address]
        item == ItemByAccountId(address, nickname)
    IN /\ IF ~owner.ok
          THEN /\ last' = [call EXCEPT !.result = "BadOrigin"]
               /\ UNCHANGED <<stores, registered>>
          ELSE IF check_account /\ contains_key(ItemByAccountIdStore, owner.who)
          THEN /\ last' = [call EXCEPT !.result = "AccountIdAlreadyRegistered"]
               /\ UNCHANGED <<stores, registered>>
          ELSE IF check_nickname /\ contains_key(ItemByNicknameStore, nickname)
          THEN /\ last' = [call EXCEPT !.result = "NicknameAlreadyRegistered"]
               /\ ItemByAccountIdStore' =
                      IF early_insert THEN insert(ItemByAccountIdStore, owner.who, item)
                                      ELSE ItemByAccountIdStore
               /\ UNCHANGED <<ItemByNicknameStore, ContactByAccountIdStore, registered>>
          ELSE /\ ItemByNicknameStore' = insert(ItemByNicknameStore, nickname, owner.who)
               /\ ItemByAccountIdStore' = insert(ItemByAccountIdStore, owner.who, item)
               /\ UNCHANGED ContactByAccountIdStore
               /\ last' = [call EXCEPT !.result = "Ok"]
               /\ registered' = registered \cup
                      {[id |-> owner.who, nickname |-> nickname, address |-> address]}
       /\ prev' = last
       /\ UNCHANGED <<inflight, overlapped>>
       /\ UNCHANGED events

register_no_account_check(origin, nickname, address) ==
    register_variant(origin, nickname, address, FALSE, TRUE, FALSE)

register_no_nickname_check(origin, nickname, address) ==
    register_variant(origin, nickname, address, TRUE, FALSE, FALSE)

register_early_insert(origin, nickname, address) ==
    register_variant(origin, nickname, address, TRUE, TRUE, TRUE)

\* register evaluating the nickname guard before the identity guard.
register_nickname_first(origin, nickname, address) ==
    LET owner == ensure_signed(origin)
        call == [NoCall EXCEPT !.op = "register", !.origin = origin,
                               !.nickname = nickname, !.address = address]
    IN /\ IF ~owner.ok
          THEN /\ last' = [call EXCEPT !.result = "BadOrigin"]
               /\ UNCHANGED <<stores, registered>>
          ELSE IF contains_key(ItemByNicknameStore, nickname)
          THEN /\ last' = [call EXCEPT !.result = "NicknameAlreadyRegistered"]
               /\ UNCHANGED <<stores, registered>>
          ELSE IF contains_key(ItemByAccountIdStore, owner.who)
          THEN /\ last' = [call EXCEPT !.result = "AccountIdAlreadyRegistered"]
               /\ UNCHANGED <<stores, registered>>
          ELSE /\ ItemByNicknameStore' = insert(ItemByNicknameStore, nickname, owner.who)
               /\ ItemByAccountIdStore' =
                      insert(ItemByAccountIdStore, owner.who, ItemByAccountId(address, nickname))
               /\ UNCHANGED ContactByAccountIdStore
               /\ last' = [call EXCEPT !.result = "Ok"]
               /\ registered' = registered \cup
                      {[id |-> owner.who, nickname |-> nickname, address |-> address]}
       /\ prev' = last
       /\ UNCHANGED <<inflight, overlapped>>
       /\ UNCHANGED events

\* register writing the nickname entry only.
register_nickname_entry_only(origin, nickname, address) ==
    LET owner == ensure_signed(origin)
        call == [NoCall EXCEPT !.op = "register", !.origin = origin,
                               !.nickname = nickname, !.address = address]
    IN /\ IF ~owner.ok
          THEN /\ last' = [call EXCEPT !.result = "BadOrigin"]
               /\ UNCHANGED <<stores, registered>>
          ELSE IF contains_key(ItemByAccountIdStore, owner.who)
          THEN /\ last' = [call EXCEPT !.result = "AccountIdAlreadyRegistered"]
               /\ UNCHANGED <<stores, registered>>
          ELSE IF contains_key(ItemByNicknameStore, nickname)
          THEN /\ last' = [call EXCEPT !.result = "NicknameAlreadyRegistered"]
               /\ UNCHANGED <<stores, registered>>
          ELSE /\ ItemByNicknameStore' = insert(ItemByNicknameStore, nickname, owner.who)
               /\ UNCHANGED <<ItemByAccountIdStore, ContactByAccountIdStore>>
               /\ last' = [call EXCEPT !.result = "Ok"]
               /\ registered' = registered \cup
                      {[id |-> owner.who, nickname |-> nickname, address |-> address]}
       /\ prev' = last
       /\ UNCHANGED <<inflight, overlapped>>
       /\ UNCHANGED events

\* register taking an identity whose stored record reads as the default
\* record for one that has no record.
register_default_as_absent(origin, nickname, address) ==
    LET owner == ensure_signed(origin)
        call == [NoCall EXCEPT !.op = "register", !.origin = origin,
                               !.nickname = nickname, !.address = address]
    IN /\ IF ~owner.ok
          THEN /\ last' = [call EXCEPT !.result = "BadOrigin"]
               /\ UNCHANGED <<stores, registered>>
          ELSE IF get_address_by_account_id(owner.who) # DefaultItemByAccountId
          THEN /\ last' = [call EXCEPT !.result = "AccountIdAlreadyRegistered"]
               /\ UNCHANGED <<stores, registered>>
          ELSE IF contains_key(ItemByNicknameStore, nickname)
          THEN /\ last' = [call EXCEPT !.result = "NicknameAlreadyRegistered"]
               /\ UNCHANGED <<stores, registered>>
          ELSE /\ ItemByNicknameStore' = insert(ItemByNicknameStore, nickname, owner.who)
               /\ ItemByAccountIdStore' =
                      insert(ItemByAccountIdStore, owner.who, ItemByAccountId(address, nickname))
               /\ UNCHANGED ContactByAccountIdStore
               /\ last' = [call EXCEPT !.result = "Ok"]
               /\ registered' = registered \cup
                      {[id |-> owner.who, nickname |-> nickname, address |-> address]}
       /\ prev' = last
       /\ UNCHANGED <<inflight, overlapped>>
       /\ UNCHANGED events

register(origin, nickname, address) ==
    LET owner == ensure_signed(origin)
        call == [NoCall EXCEPT !.op = "register", !.origin = origin,
                               !.nickname = nickname, !.address = address]
    IN /\ IF ~owner.ok
          THEN /\ last' = [call EXCEPT !.result = "BadOrigin"]
               /\ UNCHANGED <<stores, registered>>
          ELSE IF contains_key(ItemByAccountIdStore, owner.who)
          THEN /\ last' = [call EXCEPT !.result = "AccountIdAlreadyRegistered"]
               /\ UNCHANGED <<stores, registered>>
          ELSE IF contains_key(ItemByNicknameStore, nickname)
          THEN /\ last' = [call EXCEPT !.result = "NicknameAlreadyRegistered"]
               /\ UNCHANGED <<stores, registered>>
          ELSE /\ ItemByNicknameStore' = insert(ItemByNicknameStore, nickname, owner.who)
               /\ ItemByAccountIdStore' =
                      insert(ItemByAccountIdStore, owner.who, ItemByAccountId(address, nickname))
               /\ UNCHANGED ContactByAccountIdStore
               /\ last' = [call EXCEPT !.result = "Ok"]
               /\ registered' = registered \cup
                      {[id |-> owner.who, nickname |-> nickname, address |-> address]}
       /\ prev' = last
       /\ UNCHANGED <<inflight, overlapped>>
       /\ UNCHANGED events

\* answer_chat refusing a caller that has no binding in the registry.
answer_chat_registered_only(origin, answer, to) ==
    LET who == ensure_signed(origin)
        call == [NoCall EXCEPT !.op = "answer_chat", !.origin = origin,
                               !.answer = answer, !.to = to]
    IN /\ Len(events) < MaxEvents
       /\ IF ~who.ok
          THEN /\ last' = [call EXCEPT !.result = "BadOrigin"]
               /\ UNCHANGED events
          ELSE IF ~contains_key(ItemByAccountIdStore, who.who)
          THEN /\ last' = [call EXCEPT !.result = "AccountIdAlreadyRegistered"]
               /\ UNCHANGED events
          ELSE /\ events' = deposit_event(events, EventAnswer(answer, who.who, to))
               /\ last' = [call EXCEPT !.result = "Ok"]
       /\ prev' = last
       /\ UNCHANGED <<inflight, overlapped>>
       /\ UNCHANGED <<stores, registered>>

answer_chat(origin, answer, to) ==
    LET who == ensure_signed(origin)
        call == [NoCall EXCEPT !.op = "answer_chat", !.origin = origin,
                               !.answer = answer, !.to = to]
    IN /\ Len(events) < MaxEvents
       /\ IF ~who.ok
          THEN /\ last' = [call EXCEPT !.result = "BadOrigin"]
               /\ UNCHANGED events
          ELSE /\ events' = deposit_event(events, EventAnswer(answer, who.who, to))
               /\ last' = [call EXCEPT !.result = "Ok"]
       /\ prev' = last
       /\ UNCHANGED <<inflight, overlapped>>
       /\ UNCHANGED <<stores, registered>>

\* upsert_contact refusing an owner that has no binding in the registry.
upsert_contact_registered_only(origin, contact_name, contact_addr) ==
    LET who == ensure_signed(origin)
        call == [NoCall EXCEPT !.op = "upsert_contact", !.origin = origin,
                               !.contact_name = contact_name, !.contact_addr = contact_addr]
    IN /\ IF ~who.ok
          THEN /\ last' = [call EXCEPT !.result = "BadOrigin"]
               /\ UNCHANGED ContactByAccountIdStore
          ELSE IF ~contains_key(ItemByAccountIdStore, who.who)
          THEN /\ last' = [call EXCEPT !.result = "AccountIdAlreadyRegistered"]
               /\ UNCHANGED ContactByAccountIdStore
          ELSE /\ ContactByAccountIdStore' =
                      double_set(ContactByAccountIdStore, who.who, contact_addr,
                                 ContactByAccountId(contact_name))
               /\ last' = [call EXCEPT !.result = "Ok"]
       /\ prev' = last
       /\ UNCHANGED <<inflight, overlapped>>
       /\ UNCHANGED <<ItemByNicknameStore, ItemByAccountIdStore, events, registered>>

upsert_contact(origin, contact_name, contact_addr) ==
    LET who == ensure_signed(origin)
        call == [NoCall EXCEPT !.op = "upsert_contact", !.origin = origin,
                               !.contact_name = contact_name, !.contact_addr = contact_addr]
    IN /\ IF ~who.ok
          THEN /\ last' = [call EXCEPT !.result = "BadOrigin"]
               /\ UNCHANGED ContactByAccountIdStore
          ELSE /\ ContactByAccountIdStore' =
                      double_set(ContactByAccountIdStore, who.who, contact_addr,
                                 ContactByAccountId(contact_name))
               /\ last' = [call EXCEPT !.result = "Ok"]
       /\ prev' = last
       /\ UNCHANGED <<inflight, overlapped>>
       /\ UNCHANGED <<ItemByNicknameStore, ItemByAccountIdStore, events, registered>>

remove_contact(origin, contact_addr) ==
    LET who == ensure_signed(origin)
        call == [NoCall EXCEPT !.op = "remove_contact", !.origin = origin,
                               !.contact_addr = contact_addr]
    IN /\ IF ~who.ok
          THEN /\ last' = [call EXCEPT !.result = "BadOrigin"]
               /\ UNCHANGED ContactByAccountIdStore
          ELSE /\ ContactByAccountIdStore' =
                      double_remove(ContactByAccountIdStore, who.who, contact_addr)
               /\ last' = [call EXCEPT !.result = "Ok"]
       /\ prev' = last
       /\ UNCHANGED <<inflight, overlapped>>
       /\ UNCHANGED <<ItemByNicknameStore, ItemByAccountIdStore, events, registered>>

(* ---------------------------------------------------------------------- *)
(* Calls as the dispatcher submits them: any origin, arguments drawn from  *)
(* the value domains.  One call runs to completion before the next.        *)
(* ---------------------------------------------------------------------- *)
OfferChat ==
    \E origin \in Origin, welcome_msg \in WelcomeMsg, offer \in OfferBlob, to \in AccountId :
        offer_chat(origin, welcome_msg, offer, to)

Register ==
    \E origin \in Origin, nickname \in Nickname, address \in Address :
        register(origin, nickname, address)

AnswerChat ==
    \E origin \in Origin, answer \in AnswerBlob, to \in AccountId :
        answer_chat(origin, answer, to)

UpsertContact ==
    \E origin \in Origin, contact_name \in EncodedContactName,
       contact_addr \in EncodedContactAddr :
        upsert_contact(origin, contact_name, contact_addr)

RemoveContact ==
    \E origin \in Origin, contact_addr \in EncodedContactAddr :
        remove_contact(origin, contact_addr)

(* The same calls by one identity (or unsigned), with every byte-array     *)
(* argument fixed to the all-zero array and the recipient fixed: used      *)
(* where another component is the subject and this one only has to take    *)
(* part in the interleaving.                                               *)
ZeroOrigin == {Signed("alice")} \cup Unsigned

OfferChatZero == \E origin \in ZeroOrigin : offer_chat(origin, Zero, Zero, "alice")

RegisterZero == \E origin \in ZeroOrigin : register(origin, Zero, Zero)

AnswerChatZero == \E origin \in ZeroOrigin : answer_chat(origin, Zero, "alice")

UpsertContactZero == \E origin \in ZeroOrigin : upsert_contact(origin, Zero, Zero)

RemoveContactZero == \E origin \in ZeroOrigin : remove_contact(origin, Zero)

\* Registry calls over their whole domain.
NextRegistry ==
    OfferChatZero \/ Register \/ AnswerChatZero \/ UpsertContactZero \/ RemoveContactZero

SpecRegistry == Init /\ [][NextRegistry]_vars

\* Contact-book calls over their whole domain.
NextContacts ==
    OfferChatZero \/ RegisterZero \/ AnswerChatZero \/ UpsertContact \/ RemoveContact

SpecContacts == Init /\ [][NextContacts]_vars

\* Signalling calls over their whole domain.
NextSignal ==
    OfferChat \/ RegisterZero \/ AnswerChat \/ UpsertContactZero \/ RemoveContactZero

SpecSignal == Init /\ [][NextSignal]_vars

(* ---------------------------------------------------------------------- *)
(* register without the dispatcher's serialization: the guards             *)
(* (lib.rs:141-149) and the two inserts (lib.rs:151-154) are separate      *)
(* steps, and steps of other register calls may come between them.  A      *)
(* third identity takes part.                                              *)
(* ---------------------------------------------------------------------- *)
Racer == AccountId \cup {"carol"}
RacerOrigin == {Signed(a) : a \in Racer} \cup Unsigned

\* register_check letting a bound nickname through.
register_check_no_nickname_check(origin, nickname, address) ==
    LET owner == ensure_signed(origin)
        call == [NoCall EXCEPT !.op = "register", !.origin = origin,
                               !.nickname = nickname, !.address = address]
    IN /\ Cardinality(inflight) < MaxInFlight
       /\ overlapped' = (overlapped \/ inflight # {})
       /\ IF ~owner.ok
          THEN /\ last' = [call EXCEPT !.result = "BadOrigin"]
               /\ prev' = last
               /\ UNCHANGED inflight
          ELSE IF contains_key(ItemByAccountIdStore, owner.who)
          THEN /\ last' = [call EXCEPT !.result = "AccountIdAlreadyRegistered"]
               /\ prev' = last
               /\ UNCHANGED inflight
          ELSE /\ inflight' = inflight \cup {call}
               /\ UNCHANGED <<last, prev>>
       /\ UNCHANGED <<stores, events, registered>>

register_check(origin, nickname, address) ==
    LET owner == ensure_signed(origin)
        call == [NoCall EXCEPT !.op = "register", !.origin = origin,
                               !.nickname = nickname, !.address = address]
    IN /\ Cardinality(inflight) < MaxInFlight
       /\ overlapped' = (overlapped \/ inflight # {})
       /\ IF ~owner.ok
          THEN /\ last' = [call EXCEPT !.result = "BadOrigin"]
               /\ prev' = last
               /\ UNCHANGED inflight
          ELSE IF contains_key(ItemByAccountIdStore, owner.who)
          THEN /\ last' = [call EXCEPT !.result = "AccountIdAlreadyRegistered"]
               /\ prev' = last
               /\ UNCHANGED inflight
          ELSE IF contains_key(ItemByNicknameStore, nickname)
          THEN /\ last' = [call EXCEPT !.result = "NicknameAlreadyRegistered"]
               /\ prev' = last
               /\ UNCHANGED inflight
          ELSE /\ inflight' = inflight \cup {call}
               /\ UNCHANGED <<last, prev>>
       /\ UNCHANGED <<stores, events, registered>>

register_insert(call) ==
    /\ call \in inflight
    /\ ItemByNicknameStore' = insert(ItemByNicknameStore, call.nickname, call.origin.who)
    /\ ItemByAccountIdStore' =
           insert(ItemByAccountIdStore, call.origin.who,
                  ItemByAccountId(call.address, call.nickname))
    /\ last' = [call EXCEPT !.result = "Ok"]
    /\ prev' = last
    /\ registered' = registered \cup
           {[id |-> call.origin.who, nickname |-> call.nickname, address |-> call.address]}
    /\ inflight' = inflight \ {call}
    /\ UNCHANGED <<ContactByAccountIdStore, events, overlapped>>

\* The nicknames asked for in that execution; the address is the same in
\* every call.
RacerNickname == {"nickA", "nickB"}

RegisterCheck ==
    \E origin \in RacerOrigin, nickname \in RacerNickname :
        register_check(origin, nickname, "addrA")

RegisterInsert == \E call \in inflight : register_insert(call)

NextInterleaved == RegisterCheck \/ RegisterInsert

SpecInterleaved == Init /\ [][NextInterleaved]_vars

(* ---------------------------------------------------------------------- *)
(* Readings of the state used by the properties.                           *)
(* ---------------------------------------------------------------------- *)
Errors == {"BadOrigin", "AccountIdAlreadyRegistered", "NicknameAlreadyRegistered"}

\* The values stored under key k, and under the composite key (k1, k2).
values_at(map, k) == {e[2] : e \in {x \in map : x[1] = k}}
values_at2(map, k1, k2) == {e[3] : e \in {x \in map : x[1] = k1 /\ x[2] = k2}}

\* The identities recorded as owners of nickname n, in either map.
owners_of(n) ==
    values_at(ItemByNicknameStore, n) \cup
    {e[1] : e \in {x \in ItemByAccountIdStore : x[2].nickname = n}}

\* The nicknames recorded as owned by identity a, in either map.
nicknames_of(a) ==
    {e[1] : e \in {x \in ItemByNicknameStore : x[2] = a}} \cup
    {v.nickname : v \in values_at(ItemByAccountIdStore, a)}

(* ---------------------------------------------------------------------- *)
(* Identity registry.                                                      *)
(* ---------------------------------------------------------------------- *)

\* C1: in every reachable state no nickname is recorded as owned by two
\* different identities and no identity owns two different nicknames.
C1_OneToOne ==
    /\ \A n \in Nickname : Cardinality(owners_of(n)) <= 1
    /\ \A a \in AccountId : Cardinality(nicknames_of(a)) <= 1

\* Both identities are bound, and the last call was a rejected attempt to bind again.
C1_Witness ==
    /\ \A a \in AccountId : Cardinality(nicknames_of(a)) = 1
    /\ \E n1, n2 \in Nickname :
          n1 # n2 /\ Cardinality(owners_of(n1)) = 1 /\ Cardinality(owners_of(n2)) = 1
    /\ last.op = "register" /\ last.result \in Errors \ {"BadOrigin"}
    /\ ContactByAccountIdStore # {} /\ events # <<>>

\* C2: once register by id has succeeded, every later register by the same id,
\* whatever the nickname and address, fails with AccountIdAlreadyRegistered.
C2_SecondRegisterBySameId ==
    [][\A r \in registered :
          (last'.op = "register" /\ last'.origin = Signed(r.id))
              => last'.result = "AccountIdAlreadyRegistered"]_vars

\* A bound identity asked for a nickname nobody holds and was refused; before
\* that it had asked for a nickname held by the other identity.
C2_Witness ==
    /\ last.op = "register" /\ last.result = "AccountIdAlreadyRegistered"
    /\ \E r \in registered : last.origin = Signed(r.id)
    /\ ~contains_key(ItemByNicknameStore, last.nickname)
    /\ prev.op = "register" /\ prev.result = "AccountIdAlreadyRegistered"
    /\ prev.origin = last.origin
    /\ \E r \in registered : r.nickname = prev.nickname /\ Signed(r.id) # prev.origin

\* C3 as stated: once register with nick has succeeded, every later register of
\* the same nick by any signed identity fails with NicknameAlreadyRegistered.
C3_AnyIdentityGetsNicknameError ==
    [][\A r \in registered :
          (last'.op = "register" /\ last'.origin.raw = "Signed"
           /\ last'.nickname = r.nickname)
              => last'.result = "NicknameAlreadyRegistered"]_vars

\* C3 amended: once register with nick has succeeded, every later register of
\* the same nick by a signed identity that has no binding of its own fails with
\* NicknameAlreadyRegistered.
C3_UnboundIdentityGetsNicknameError ==
    [][\A r \in registered :
          (last'.op = "register" /\ last'.origin.raw = "Signed"
           /\ last'.nickname = r.nickname
           /\ ~contains_key(ItemByAccountIdStore, last'.origin.who))
              => last'.result = "NicknameAlreadyRegistered"]_vars

\* An unbound identity asked for a nickname that is bound and was refused.
C3_Witness ==
    /\ last.op = "register" /\ last.result = "NicknameAlreadyRegistered"
    /\ \E r \in registered : r.nickname = last.nickname /\ Signed(r.id) # last.origin
    /\ ~contains_key(ItemByAccountIdStore, last.origin.who)

\* C4: a register call that fails with AccountIdAlreadyRegistered or
\* NicknameAlreadyRegistered leaves both registry maps as they were.
C4_FailedRegisterKeepsMaps ==
    [][(last'.op = "register"
        /\ last'.result \in {"AccountIdAlreadyRegistered", "NicknameAlreadyRegistered"})
          => UNCHANGED <<ItemByNicknameStore, ItemByAccountIdStore>>]_vars

\* The last two calls were register calls that failed, one with each error.
C4_Witness ==
    /\ last.op = "register" /\ last.result = "NicknameAlreadyRegistered"
    /\ prev.op = "register" /\ prev.result = "AccountIdAlreadyRegistered"
    /\ ItemByNicknameStore # {} /\ ItemByAccountIdStore # {}

\* C5: a call of any of the five operations that ends in an error leaves the
\* three stores as they were and appends no event.
C5_ErrorsHaveNoEffect ==
    [][last'.result \in Errors => UNCHANGED <<stores, events>>]_vars

\* An unsigned signalling call was rejected right after a register call was refused.
C5_Witness ==
    /\ last.op \in {"offer_chat", "answer_chat"} /\ last.result = "BadOrigin"
    /\ prev.op = "register" /\ prev.result \in {"AccountIdAlreadyRegistered",
                                                 "NicknameAlreadyRegistered"}
    /\ ItemByNicknameStore # {} /\ ContactByAccountIdStore # {}

(* ---------------------------------------------------------------------- *)
(* Signalling.                                                             *)
(* ---------------------------------------------------------------------- *)

\* C6: a successful offer_chat appends exactly one Offer event carrying the
\* call's offer, caller, recipient and welcome message, appends no Answer
\* event, and leaves the three stores as they were.
C6_OfferPassThrough ==
    [][(last'.op = "offer_chat" /\ last'.result = "Ok")
          => /\ events' = Append(events,
                     [kind |-> "Offer", payload |-> last'.offer,
                      from |-> last'.origin.who, to |-> last'.to,
                      welcome_msg |-> last'.welcome_msg])
             /\ UNCHANGED stores]_vars

\* An offer went through whose four fields can be told apart.
C6_Witness ==
    /\ last.op = "offer_chat" /\ last.result = "Ok"
    /\ last.to # last.origin.who /\ last.offer # last.welcome_msg
    /\ Len(events) = 1 /\ events[1].kind = "Offer"
    /\ ContactByAccountIdStore # {} /\ ItemByAccountIdStore # {}

\* C7: offer_chat and answer_chat by a signed caller succeed whoever the
\* recipient is and whether or not caller and recipient are registered; an
\* answer_chat then appends exactly one Answer event from the caller to the
\* recipient and leaves the three stores as they were.
C7_SignalsAlwaysSucceed ==
    [][(last'.op \in {"offer_chat", "answer_chat"} /\ last'.origin.raw = "Signed")
          => /\ last'.result = "Ok"
             /\ Len(events') = Len(events) + 1
             /\ last'.op = "answer_chat" =>
                    /\ events' = Append(events,
                            [kind |-> "Answer", payload |-> last'.answer,
                             from |-> last'.origin.who, to |-> last'.to,
                             welcome_msg |-> NoArg])
                    /\ UNCHANGED stores]_vars

\* An unregistered caller answered itself while the other identity is registered.
C7_Witness ==
    /\ last.op = "answer_chat" /\ last.result = "Ok"
    /\ last.to = last.origin.who
    /\ ~contains_key(ItemByAccountIdStore, last.origin.who)
    /\ ItemByAccountIdStore # {}
    /\ events = <<[kind |-> "Answer", payload |-> last.answer, from |-> last.to,
                   to |-> last.to, welcome_msg |-> NoArg]>>

(* ---------------------------------------------------------------------- *)
(* Contact book.                                                           *)
(* ---------------------------------------------------------------------- *)
SameContactKey(c, d) == c.origin = d.origin /\ c.contact_addr = d.contact_addr

\* C8: after upsert_contact(owner, addr, name1) followed by
\* upsert_contact(owner, addr, name2) there is exactly one record at
\* (owner, addr) and its value is name2.
C8_UpsertOverwrites ==
    (/\ prev.op = "upsert_contact" /\ prev.result = "Ok"
     /\ last.op = "upsert_contact" /\ last.result = "Ok"
     /\ SameContactKey(prev, last))
        => {e \in ContactByAccountIdStore :
                e[1] = last.origin.who /\ e[2] = last.contact_addr}
           = {<<last.origin.who, last.contact_addr, [name |-> last.contact_name]>>}

\* Two upserts in a row on one key, with different names.
C8_Witness ==
    /\ prev.op = "upsert_contact" /\ prev.result = "Ok"
    /\ last.op = "upsert_contact" /\ last.result = "Ok"
    /\ SameContactKey(prev, last)
    /\ prev.contact_name # last.contact_name
    /\ Cardinality(ContactByAccountIdStore) > 1

\* C9: remove_contact by a signed caller succeeds and leaves no record at
\* (owner, addr); on a key with no record it leaves the contact store as it
\* was, and so does the second of two consecutive calls on one key.
C9_RemoveIdempotent ==
    [][(last'.op = "remove_contact" /\ last'.origin.raw = "Signed")
          => /\ last'.result = "Ok"
             /\ values_at2(ContactByAccountIdStore', last'.origin.who,
                            last'.contact_addr) = {}
             /\ values_at2(ContactByAccountIdStore, last'.origin.who,
                            last'.contact_addr) = {}
                    => UNCHANGED ContactByAccountIdStore
             /\ (last.op = "remove_contact" /\ last.result = "Ok"
                 /\ SameContactKey(last, last'))
                    => UNCHANGED ContactByAccountIdStore]_vars

\* Two removals in a row on one key, while the caller has another record left.
C9_Witness ==
    /\ prev.op = "remove_contact" /\ prev.result = "Ok"
    /\ last.op = "remove_contact" /\ last.result = "Ok"
    /\ SameContactKey(prev, last)
    /\ \E e \in ContactByAccountIdStore : e[1] = last.origin.who

\* C10: a second upsert_contact with the arguments of the one just made
\* leaves all stores as the first left them.
C10_UpsertIdempotent ==
    [][(last.op = "upsert_contact" /\ last.result = "Ok" /\ last' = last)
          => UNCHANGED stores]_vars

\* The same upsert was made twice in a row.
C10_Witness ==
    /\ last.op = "upsert_contact" /\ last.result = "Ok"
    /\ prev = last
    /\ Cardinality(ContactByAccountIdStore) > 1

\* C11: in every reachable state upsert_contact and remove_contact can be
\* called by every signed caller with every argument value and return Ok,
\* whether or not the owner is registered and the key holds a record.
C11_ContactCallsTotal ==
    \A a \in AccountId, addr \in EncodedContactAddr :
        /\ ENABLED (remove_contact(Signed(a), addr) /\ last'.result = "Ok")
        /\ \A name \in EncodedContactName :
               ENABLED (upsert_contact(Signed(a), name, addr) /\ last'.result = "Ok")

\* An unregistered owner removed a record and then upserted at the key left
\* empty, while the other identity is registered.
C11_Witness ==
    /\ prev.op = "remove_contact" /\ prev.result = "Ok"
    /\ last.op = "upsert_contact" /\ last.result = "Ok"
    /\ SameContactKey(prev, last)
    /\ ~contains_key(ItemByAccountIdStore, last.origin.who)
    /\ ItemByAccountIdStore # {}

(* ---------------------------------------------------------------------- *)
(* Identity registry: permanence, order of the guards, consistency.        *)
(* ---------------------------------------------------------------------- *)

\* C12: once register(id, nick, addr) has succeeded, in every later state the
\* nickname map holds nick -> id and the identity map id -> (addr, nick).
C12_BindingsPermanent ==
    \A r \in registered :
        /\ values_at(ItemByNicknameStore, r.nickname) = {r.id}
        /\ values_at(ItemByAccountIdStore, r.id) =
               {[address |-> r.address, nickname |-> r.nickname]}

\* Another identity asked for a bound nickname with a different address and
\* was refused, after calls of the contact book and the signalling layer.
C12_Witness ==
    /\ last.op = "register" /\ last.result = "NicknameAlreadyRegistered"
    /\ \E r \in registered :
          /\ r.nickname = last.nickname /\ r.address # last.address
          /\ r.id # last.origin.who
    /\ prev.op = "register" /\ prev.result = "AccountIdAlreadyRegistered"
    /\ ContactByAccountIdStore # {} /\ events # <<>>

\* C13: a register call by an identity that is already bound, for a nickname
\* that is already bound, fails with AccountIdAlreadyRegistered.
C13_IdentityCheckedFirst ==
    [][(/\ last'.op = "register" /\ last'.origin.raw = "Signed"
        /\ contains_key(ItemByAccountIdStore, last'.origin.who)
        /\ contains_key(ItemByNicknameStore, last'.nickname))
          => last'.result = "AccountIdAlreadyRegistered"]_vars

\* A bound identity asked for the nickname the other identity holds.
C13_Witness ==
    /\ last.op = "register" /\ last.result = "AccountIdAlreadyRegistered"
    /\ contains_key(ItemByAccountIdStore, last.origin.who)
    /\ \E owner \in values_at(ItemByNicknameStore, last.nickname) :
          owner # last.origin.who

\* C14: whenever register has returned NicknameAlreadyRegistered, the
\* nickname asked for is owned by an identity other than the caller and the
\* caller has no binding.
C14_NicknameErrorMeansForeignOwner ==
    (last.op = "register" /\ last.result = "NicknameAlreadyRegistered")
        => /\ values_at(ItemByNicknameStore, last.nickname) # {}
           /\ \A owner \in values_at(ItemByNicknameStore, last.nickname) :
                  owner # last.origin.who
           /\ ~contains_key(ItemByAccountIdStore, last.origin.who)
           /\ nicknames_of(last.origin.who) = {}

\* An unbound caller was refused a nickname twice in a row.
C14_Witness ==
    /\ last.op = "register" /\ last.result = "NicknameAlreadyRegistered"
    /\ prev.op = "register" /\ prev.result = "NicknameAlreadyRegistered"
    /\ prev.origin = last.origin
    /\ values_at(ItemByNicknameStore, last.nickname) # {}

\* C15: in every state between calls the two registry maps agree: the
\* nickname map holds nick -> id exactly when the identity map holds a record
\* for id whose nickname is nick.
C15_MapsConsistent ==
    /\ \A e \in ItemByNicknameStore :
          \E f \in ItemByAccountIdStore : f[1] = e[2] /\ f[2].nickname = e[1]
    /\ \A f \in ItemByAccountIdStore :
          \E e \in ItemByNicknameStore : e[1] = f[2].nickname /\ e[2] = f[1]

\* A register call has just written both maps, after one that was refused.
C15_Witness ==
    /\ last.op = "register" /\ last.result = "Ok"
    /\ prev.op = "register" /\ prev.result = "NicknameAlreadyRegistered"
    /\ Cardinality(ItemByNicknameStore) = 2 /\ Cardinality(ItemByAccountIdStore) = 2

\* C16: register by a signed caller succeeds exactly when neither the caller
\* nor the nickname has an entry; a successful call adds the entries
\* nick -> caller and caller -> (addr, nick) and changes nothing else in the
\* registry maps, the contact store or the event log.
C16_RegisterEffect ==
    [][(last'.op = "register" /\ last'.origin.raw = "Signed")
          => /\ last'.result = "Ok"
                    <=> /\ ~contains_key(ItemByAccountIdStore, last'.origin.who)
                        /\ ~contains_key(ItemByNicknameStore, last'.nickname)
             /\ last'.result = "Ok"
                    => /\ ItemByNicknameStore' = ItemByNicknameStore \cup
                              {<<last'.nickname, last'.origin.who>>}
                       /\ ItemByAccountIdStore' = ItemByAccountIdStore \cup
                              {<<last'.origin.who,
                                 [address |-> last'.address, nickname |-> last'.nickname]>>}
                       /\ UNCHANGED <<ContactByAccountIdStore, events>>]_vars

\* The second identity registered while the first binding, a contact record
\* and an event were already there.
C16_Witness ==
    /\ last.op = "register" /\ last.result = "Ok"
    /\ \E r \in registered : r.id # last.origin.who
    /\ ContactByAccountIdStore # {} /\ events # <<>>

ZeroBound(r) == r.nickname = Zero /\ r.address = Zero

\* What C17 says of the reads in a state, and of the next register call by an
\* identity bound with all-zero values.
C17_Reads ==
    /\ \A a \in AccountId :
          ~contains_key(ItemByAccountIdStore, a)
              => get_address_by_account_id(a) = DefaultItemByAccountId
    /\ \A r \in registered :
          ZeroBound(r) => /\ get_address_by_account_id(r.id) = DefaultItemByAccountId
                          /\ contains_key(ItemByAccountIdStore, r.id)

C17_StillBound ==
    \A r \in registered :
        (ZeroBound(r) /\ last'.op = "register" /\ last'.origin = Signed(r.id))
            => last'.result = "AccountIdAlreadyRegistered"

\* C17 as stated: a never-registered identity and one registered with
\* all-zero values read as the same default record and differ on
\* contains_key; the latter's next register fails with
\* AccountIdAlreadyRegistered and every other signed identity asking for the
\* all-zero nickname gets NicknameAlreadyRegistered.
C17_ZeroNicknameRefusedToAll ==
    [][/\ C17_Reads
       /\ C17_StillBound
       /\ \A r \in registered :
             (/\ ZeroBound(r) /\ last'.op = "register" /\ last'.origin.raw = "Signed"
              /\ last'.origin.who # r.id /\ last'.nickname = Zero)
                 => last'.result = "NicknameAlreadyRegistered"]_vars

\* C17 amended: as above, with the all-zero nickname refused with
\* NicknameAlreadyRegistered to every other signed identity that has no
\* binding of its own.
C17_ZeroNicknameRefusedToUnbound ==
    [][/\ C17_Reads
       /\ C17_StillBound
       /\ \A r \in registered :
             (/\ ZeroBound(r) /\ last'.op = "register" /\ last'.origin.raw = "Signed"
              /\ last'.origin.who # r.id /\ last'.nickname = Zero
              /\ ~contains_key(ItemByAccountIdStore, last'.origin.who))
                 => last'.result = "NicknameAlreadyRegistered"]_vars

\* One identity is bound with all-zero values and was refused a second
\* register; the other, never registered, was then refused the all-zero
\* nickname; both read as the default record.
C17_Witness ==
    /\ \E r \in registered : ZeroBound(r) /\ prev.origin = Signed(r.id)
    /\ prev.op = "register" /\ prev.result = "AccountIdAlreadyRegistered"
    /\ last.op = "register" /\ last.result = "NicknameAlreadyRegistered"
    /\ last.nickname = Zero
    /\ ~contains_key(ItemByAccountIdStore, last.origin.who)
    /\ get_address_by_account_id(last.origin.who) =
           get_address_by_account_id(prev.origin.who)

\* C19: upsert_contact or remove_contact by caller c on address a changes no
\* record at any other key, neither registry map, and appends no event.
C19_OtherKeysUntouched ==
    [][last'.op \in {"upsert_contact", "remove_contact"}
          => /\ {e \in ContactByAccountIdStore' :
                     ~(e[1] = last'.origin.who /\ e[2] = last'.contact_addr)}
                = {e \in ContactByAccountIdStore :
                     ~(e[1] = last'.origin.who /\ e[2] = last'.contact_addr)}
             /\ UNCHANGED <<ItemByNicknameStore, ItemByAccountIdStore, events>>]_vars

\* A contact call went through while the caller holds a record at another
\* address and another identity holds one at the same address.
C19_Witness ==
    /\ last.op \in {"upsert_contact", "remove_contact"} /\ last.result = "Ok"
    /\ \E e \in ContactByAccountIdStore :
          e[1] = last.origin.who /\ e[2] # last.contact_addr
    /\ \E e \in ContactByAccountIdStore :
          e[1] # last.origin.who /\ e[2] = last.contact_addr
    /\ ItemByNicknameStore # {} /\ events # <<>>

(* ---------------------------------------------------------------------- *)
(* Serialization of register.                                              *)
(* ---------------------------------------------------------------------- *)

\* No nickname entry and no identity record name two owners of one nickname.
NicknameUnique ==
    /\ \A e, f \in ItemByNicknameStore : e[1] = f[1] => e[2] = f[2]
    /\ \A e, f \in ItemByAccountIdStore : e[2].nickname = f[2].nickname => e[1] = f[1]

\* The last two calls were register calls for one nickname by two different
\* signed identities, neither of them bound when its call ran.
TwoRacedForNickname ==
    /\ prev.op = "register" /\ last.op = "register"
    /\ prev.origin.raw = "Signed" /\ last.origin.raw = "Signed"
    /\ prev.origin # last.origin
    /\ prev.nickname = last.nickname
    /\ prev.result # "AccountIdAlreadyRegistered"
    /\ last.result # "AccountIdAlreadyRegistered"

FirstWonSecondRefused ==
    prev.result = "Ok" /\ last.result = "NicknameAlreadyRegistered"

\* No identity other than the two holds the nickname they asked for.
NoThirdOwner ==
    \A r \in registered :
        r.nickname = last.nickname => r.id \in {prev.origin.who, last.origin.who}

\* C18 as stated: as long as no register call has run its guards while
\* another was between its guards and its inserts, nickname uniqueness and
\* map consistency hold, and of two unregistered identities that asked for one
\* nickname the first succeeded and the second got NicknameAlreadyRegistered.
C18_SerializedRaceAsStated ==
    ~overlapped =>
        /\ NicknameUnique /\ C15_MapsConsistent
        /\ TwoRacedForNickname => FirstWonSecondRefused

\* C18 amended: the same, for a nickname that no third identity holds.
C18_SerializedRace ==
    ~overlapped =>
        /\ NicknameUnique /\ C15_MapsConsistent
        /\ (TwoRacedForNickname /\ NoThirdOwner) => FirstWonSecondRefused

\* Two register calls overlapped and both wrote: two identities are recorded
\* with one nickname and the maps disagree.
C18_Witness ==
    /\ overlapped /\ inflight = {}
    /\ ~NicknameUnique /\ ~C15_MapsConsistent
    /\ prev.op = "register" /\ prev.result = "Ok"
    /\ last.op = "register" /\ last.result = "Ok"
    /\ prev.nickname = last.nickname /\ prev.origin # last.origin

====
